---- MODULE Spec2Model ----
(***************************************************************************)
(* The transaction engine of wiktor-k/tx-engine as a state machine.       *)
(*                                                                         *)
(* Two programs live in the repository and both are modelled:             *)
(*   - the library function process (src/src/lib.rs), a fold over the      *)
(*     records of a CSV file that keeps accounts, txns and disputed;       *)
(*   - the binary (src/src/main.rs), an earlier variant of the same fold   *)
(*     that stores total in every account and has no disputed set.         *)
(* The variable program says which of the two is running.                 *)
(*                                                                         *)
(* Amounts are rust_decimal Decimal values; they are modelled as integers  *)
(* (a fixed number of fractional digits, counted in the smallest unit).    *)
(* Decimal arithmetic is exact until its 96-bit mantissa overflows, which  *)
(* the bounded amounts of this model never reach.                          *)
(***************************************************************************)
EXTENDS Integers, Sequences, FiniteSets, TLC

\* ------------------------------------------------------------- bounds
MaxClient == 2
MaxTx == 2
MaxAmount == 2
MaxRecords == 4

ClientId == 1..MaxClient
TxId == 1..MaxTx
\* Decimal is signed: the reader accepts a negative or a zero amount.
Decimal == (0 - 1)..MaxAmount

\* Option<Decimal>: None is the empty sequence, Some(a) the sequence <<a>>.
None == << >>
Some(a) == << a >>
IsSome(o) == Len(o) = 1
Unwrap(o) == o[1]
OptionDecimal == {None} \cup {Some(a) : a \in Decimal}

VARIABLES
    program,      \* "lib": process of lib.rs runs; "bin": main of main.rs runs
    accounts,     \* lib.rs: HashMap<ClientId, Account>
    txns,         \* lib.rs: HashMap<TxId, Decimal>, the transaction history
    disputed,     \* lib.rs: HashSet<TxId>
    ret,          \* lib.rs: what process has returned, Pending while it loops
    bin_accounts, \* main.rs: HashMap<ClientId, Output>
    bin_txns,     \* main.rs: HashMap<TxId, Decimal>
    bin_pc,       \* main.rs: "loop", "panicked", "returned"
    written,      \* the rows the csv Writer has serialized
    last,         \* the record read last from the stream
    n,            \* the number of records read so far
    before,       \* history: accounts, txns, disputed, charged as last found them
    charged,      \* history: the tx whose Chargeback has taken effect
    chargedClients, \* history: the clients named by such a Chargeback
    seen,         \* history: the clients named by the records read so far
    ledger,       \* history: per client, deposits - withdrawals - chargebacks
    early,        \* history: the tx disputed while the history did not hold them
    origin,       \* history: per recorded tx, the record that recorded it
    trip,         \* history: the account before a Dispute that its closing follows
    run           \* history: the current run of Disputes of one tx by one client

vars == << program, accounts, txns, disputed, ret, bin_accounts, bin_txns,
           bin_pc, written, last, n, before, charged, chargedClients,
           seen, ledger, early, origin, trip, run >>

moreHistory == << seen, ledger, early, origin, trip, run >>

libVars == << accounts, txns, disputed, ret >>
binVars == << bin_accounts, bin_txns, bin_pc >>

\* ------------------------------------------------------------- records
Record(type, client, tx, amount) ==
    [type |-> type, client |-> client, tx |-> tx, amount |-> amount]

NoRecord == [type |-> "none", client |-> 0, tx |-> 0, amount |-> None]

\* ------------------------------------------------------------- Amounts
DefaultAmounts == [available |-> 0, held |-> 0]

deposit(self, amount) == [self EXCEPT !.available = @ + amount]

\* mutant: the funds check counts the held funds too
withdraw_ok_total(self, amount) == self.available + self.held >= amount

withdraw_ok(self, amount) == self.available >= amount

\* mutant: the funds are taken without the sufficient-funds check
withdraw_unchecked(self, amount) == [self EXCEPT !.available = @ - amount]

withdraw(self, amount) ==
    IF withdraw_ok(self, amount)
    THEN [self EXCEPT !.available = @ - amount]
    ELSE self

\* mutant: the held funds grow, available is left as it was
hold_keeps_available(self, amount) == [self EXCEPT !.held = @ + amount]

hold(self, amount) ==
    [self EXCEPT !.available = @ - amount, !.held = @ + amount]

\* mutant: the released funds leave held but never reach available
release_forgets_available(self, amount) == [self EXCEPT !.held = @ - amount]

release(self, amount) ==
    [self EXCEPT !.held = @ - amount, !.available = @ + amount]

chargeback(self, amount) == [self EXCEPT !.held = @ - amount]

total(self) == self.available + self.held

\* ------------------------------------------------------------- Account
DefaultAccount(client) ==
    [client |-> client, amounts |-> DefaultAmounts, locked |-> FALSE]

\* accounts.entry(client).or_insert_with(|| Account { client, ..Default::default() })
EntryAccount(accs, client) ==
    IF client \in DOMAIN accs THEN accs
    ELSE accs @@ (client :> DefaultAccount(client))

\* mutant: txns.insert(tx, amount), the later amount replaces the first
OrInsertOverwrites(map, tx, amount) ==
    [t \in DOMAIN map \cup {tx} |-> IF t = tx THEN amount ELSE map[t]]

\* txns.entry(tx).or_insert(amount)
OrInsert(map, tx, amount) ==
    IF tx \in DOMAIN map THEN map ELSE map @@ (tx :> amount)

\* impl Serialize for Account: the row the Writer emits
Serialize(account) ==
    [client |-> account.client,
     available |-> account.amounts.available,
     held |-> account.amounts.held,
     total |-> total(account.amounts),
     locked |-> account.locked]

EmptyMap == << >>

\* ------------------------------------------------------------- history
\* The account of a client in a mapping; the zero account if it has none.
AccountView(accs, client) ==
    IF client \in DOMAIN accs THEN accs[client] ELSE DefaultAccount(client)

NoTrip == [on |-> FALSE, account |-> DefaultAccount(0)]
NoRun == [count |-> 0, start |-> DefaultAccount(0)]

\* What the stream has done so far, told from the records alone: a Deposit
\* with an amount is applied; a Withdrawal with an amount is successful when
\* the amount is at most the available funds of its client; a Dispute is
\* early when the history does not hold its tx.
ObserveMore(rec) ==
    IF program # "lib" THEN UNCHANGED moreHistory
    ELSE
    LET acct == AccountView(accounts, rec.client)
        known == rec.tx \in DOMAIN txns
        dep == rec.type = "deposit" /\ IsSome(rec.amount)
        wd == /\ rec.type = "withdrawal" /\ IsSome(rec.amount)
              /\ Unwrap(rec.amount) <= acct.amounts.available
        cb == rec.type = "chargeback" /\ known /\ rec.tx \in disputed
        same == last.client = rec.client /\ last.tx = rec.tx
    IN  /\ seen' = seen \cup {rec.client}
        /\ ledger' = [ledger EXCEPT ![rec.client] =
                          IF dep THEN @ + Unwrap(rec.amount)
                          ELSE IF wd THEN @ - Unwrap(rec.amount)
                          ELSE IF cb THEN @ - txns[rec.tx]
                          ELSE @]
        /\ early' = IF rec.type = "dispute" /\ ~known
                    THEN early \cup {rec.tx} ELSE early
        /\ origin' = IF (dep \/ wd) /\ ~known
                     THEN origin @@ (rec.tx :> [type |-> rec.type,
                                                client |-> rec.client,
                                                amount |-> Unwrap(rec.amount)])
                     ELSE origin
        /\ trip' = IF rec.type \in {"resolve", "chargeback"} /\ known
                       /\ last.type = "dispute" /\ same
                   THEN [on |-> TRUE,
                         account |-> AccountView(before.accounts, rec.client)]
                   ELSE NoTrip
        /\ run' = IF rec.type = "dispute" /\ known
                  THEN IF run.count > 0 /\ last.type = "dispute" /\ same
                       THEN [run EXCEPT !.count = @ + 1]
                       ELSE [count |-> 1, start |-> acct]
                  ELSE NoRun

\* A Chargeback takes effect when its tx has a recorded amount and is under
\* dispute at the moment the record is read.
Observe(rec) ==
    /\ ObserveMore(rec)
    /\ last' = rec
    /\ n' = n + 1
    /\ before' = IF program = "lib"
                 THEN [accounts |-> accounts, txns |-> txns,
                       disputed |-> disputed, charged |-> charged]
                 ELSE [accounts |-> bin_accounts, txns |-> bin_txns,
                       disputed |-> {}, charged |-> {}]
    /\ IF rec.type = "chargeback" /\ program = "lib"
          /\ rec.tx \in DOMAIN txns /\ rec.tx \in disputed
       THEN /\ charged' = charged \cup {rec.tx}
            /\ chargedClients' = chargedClients \cup {rec.client}
       ELSE UNCHANGED << charged, chargedClients >>

Init ==
    /\ program \in {"lib", "bin"}
    /\ accounts = EmptyMap
    /\ txns = EmptyMap
    /\ disputed = {}
    /\ ret = [tag |-> "Pending"]
    /\ bin_accounts = EmptyMap
    /\ bin_txns = EmptyMap
    /\ bin_pc = "loop"
    /\ written = {}
    /\ last = NoRecord
    /\ n = 0
    /\ before = [accounts |-> EmptyMap, txns |-> EmptyMap, disputed |-> {},
                 charged |-> {}]
    /\ charged = {}
    /\ chargedClients = {}
    /\ seen = {}
    /\ ledger = [c \in ClientId |-> 0]
    /\ early = {}
    /\ origin = EmptyMap
    /\ trip = NoTrip
    /\ run = NoRun

\* ------------------------------------------------------------- lib.rs
LibLoop == program = "lib" /\ ret.tag = "Pending" /\ n < MaxRecords

\* mutant: a locked account takes no Deposit
DepositRejectsLocked(client, tx, amount) ==
    /\ LibLoop
    /\ Observe(Record("deposit", client, tx, amount))
    /\ LET accs == EntryAccount(accounts, client) IN
       IF ~IsSome(amount)
       THEN /\ accounts' = accs
            /\ ret' = [tag |-> "Err", error |-> "DepositNoAmount", tx |-> tx]
            /\ UNCHANGED << txns, disputed >>
       ELSE IF accs[client].locked
       THEN /\ accounts' = accs
            /\ UNCHANGED << txns, disputed, ret >>
       ELSE /\ accounts' = [accs EXCEPT ![client].amounts =
                                deposit(@, Unwrap(amount))]
            /\ txns' = OrInsert(txns, tx, Unwrap(amount))
            /\ UNCHANGED << disputed, ret >>
    /\ UNCHANGED << program, binVars, written >>

\* Record::Deposit arm
Deposit(client, tx, amount) ==
    /\ LibLoop
    /\ Observe(Record("deposit", client, tx, amount))
    /\ LET accs == EntryAccount(accounts, client) IN
       IF ~IsSome(amount)
       THEN /\ accounts' = accs
            /\ ret' = [tag |-> "Err", error |-> "DepositNoAmount", tx |-> tx]
            /\ UNCHANGED << txns, disputed >>
       ELSE /\ accounts' = [accs EXCEPT ![client].amounts =
                                deposit(@, Unwrap(amount))]
            /\ txns' = OrInsert(txns, tx, Unwrap(amount))
            /\ UNCHANGED << disputed, ret >>
    /\ UNCHANGED << program, binVars, written >>

\* mutant: a Withdrawal without amount is skipped like a failed transaction
WithdrawSkipsNoAmount(client, tx, amount) ==
    /\ LibLoop
    /\ Observe(Record("withdrawal", client, tx, amount))
    /\ LET accs == EntryAccount(accounts, client) IN
       IF ~IsSome(amount)
       THEN /\ accounts' = accs
            /\ UNCHANGED << txns, disputed, ret >>
       ELSE /\ accounts' = [accs EXCEPT ![client].amounts =
                                withdraw(@, Unwrap(amount))]
            /\ txns' = IF withdraw_ok(accs[client].amounts, Unwrap(amount))
                       THEN OrInsert(txns, tx, Unwrap(amount))
                       ELSE txns
            /\ UNCHANGED << disputed, ret >>
    /\ UNCHANGED << program, binVars, written >>

\* mutant: the history keeps a Withdrawal as a negative amount
WithdrawRecordsNegative(client, tx, amount) ==
    /\ LibLoop
    /\ Observe(Record("withdrawal", client, tx, amount))
    /\ LET accs == EntryAccount(accounts, client) IN
       IF ~IsSome(amount)
       THEN /\ accounts' = accs
            /\ ret' = [tag |-> "Err", error |-> "WithdrawNoAmount", tx |-> tx]
            /\ UNCHANGED << txns, disputed >>
       ELSE /\ accounts' = [accs EXCEPT ![client].amounts =
                                withdraw(@, Unwrap(amount))]
            /\ txns' = IF withdraw_ok(accs[client].amounts, Unwrap(amount))
                       THEN OrInsert(txns, tx, 0 - Unwrap(amount))
                       ELSE txns
            /\ UNCHANGED << disputed, ret >>
    /\ UNCHANGED << program, binVars, written >>

\* Record::Withdraw arm
Withdraw(client, tx, amount) ==
    /\ LibLoop
    /\ Observe(Record("withdrawal", client, tx, amount))
    /\ LET accs == EntryAccount(accounts, client) IN
       IF ~IsSome(amount)
       THEN /\ accounts' = accs
            /\ ret' = [tag |-> "Err", error |-> "WithdrawNoAmount", tx |-> tx]
            /\ UNCHANGED << txns, disputed >>
       ELSE /\ accounts' = [accs EXCEPT ![client].amounts =
                                withdraw(@, Unwrap(amount))]
            /\ txns' = IF withdraw_ok(accs[client].amounts, Unwrap(amount))
                       THEN OrInsert(txns, tx, Unwrap(amount))
                       ELSE txns
            /\ UNCHANGED << disputed, ret >>
    /\ UNCHANGED << program, binVars, written >>

\* mutant: the account is looked up only once the history lookup succeeded
DisputeCreatesLate(client, tx) ==
    /\ LibLoop
    /\ Observe(Record("dispute", client, tx, None))
    /\ IF tx \in DOMAIN txns
       THEN /\ accounts' = [EntryAccount(accounts, client) EXCEPT
                                ![client].amounts = hold(@, txns[tx])]
            /\ disputed' = disputed \cup {tx}
       ELSE UNCHANGED << accounts, disputed >>
    /\ UNCHANGED << txns, ret, program, binVars, written >>

\* mutant: disputed.insert(tx) sits outside the history lookup
DisputeAlwaysMarks(client, tx) ==
    /\ LibLoop
    /\ Observe(Record("dispute", client, tx, None))
    /\ LET accs == EntryAccount(accounts, client) IN
       IF tx \in DOMAIN txns
       THEN accounts' = [accs EXCEPT ![client].amounts = hold(@, txns[tx])]
       ELSE accounts' = accs
    /\ disputed' = disputed \cup {tx}
    /\ UNCHANGED << txns, ret, program, binVars, written >>

\* mutant: the account is looked up under the tx of the record
DisputeKeyedByTx(client, tx) ==
    /\ LibLoop
    /\ Observe(Record("dispute", client, tx, None))
    /\ LET accs == EntryAccount(EntryAccount(accounts, client), tx) IN
       IF tx \in DOMAIN txns
       THEN /\ accounts' = [accs EXCEPT ![tx].amounts = hold(@, txns[tx])]
            /\ disputed' = disputed \cup {tx}
       ELSE /\ accounts' = EntryAccount(accounts, client)
            /\ UNCHANGED disputed
    /\ UNCHANGED << txns, ret, program, binVars, written >>

\* mutant: a tx already under dispute is not held again
DisputeOncePerTx(client, tx) ==
    /\ LibLoop
    /\ Observe(Record("dispute", client, tx, None))
    /\ LET accs == EntryAccount(accounts, client) IN
       IF tx \in DOMAIN txns /\ tx \notin disputed
       THEN /\ accounts' = [accs EXCEPT ![client].amounts = hold(@, txns[tx])]
            /\ disputed' = disputed \cup {tx}
       ELSE /\ accounts' = accs
            /\ UNCHANGED disputed
    /\ UNCHANGED << txns, ret, program, binVars, written >>

\* Record::Dispute arm
Dispute(client, tx) ==
    /\ LibLoop
    /\ Observe(Record("dispute", client, tx, None))
    /\ LET accs == EntryAccount(accounts, client) IN
       IF tx \in DOMAIN txns
       THEN /\ accounts' = [accs EXCEPT ![client].amounts = hold(@, txns[tx])]
            /\ disputed' = disputed \cup {tx}
       ELSE /\ accounts' = accs
            /\ UNCHANGED disputed
    /\ UNCHANGED << txns, ret, program, binVars, written >>

\* Record::Resolve arm
Resolve(client, tx) ==
    /\ LibLoop
    /\ Observe(Record("resolve", client, tx, None))
    /\ LET accs == EntryAccount(accounts, client) IN
       IF tx \in DOMAIN txns
       THEN /\ accounts' = [accs EXCEPT ![client].amounts =
                                release(@, txns[tx])]
            /\ disputed' = disputed \ {tx}
       ELSE /\ accounts' = accs
            /\ UNCHANGED disputed
    /\ UNCHANGED << txns, ret, program, binVars, written >>

\* mutant: no disputed.contains(&tx) check, as in the Resolve arm
ChargebackUnchecked(client, tx) ==
    /\ LibLoop
    /\ Observe(Record("chargeback", client, tx, None))
    /\ LET accs == EntryAccount(accounts, client) IN
       IF tx \in DOMAIN txns
       THEN /\ accounts' = [accs EXCEPT
                                ![client].amounts = chargeback(@, txns[tx]),
                                ![client].locked = TRUE]
            /\ disputed' = disputed \ {tx}
       ELSE /\ accounts' = accs
            /\ UNCHANGED disputed
    /\ UNCHANGED << txns, ret, program, binVars, written >>

\* mutant: account.locked = true sits outside the disputed.contains check
ChargebackLocksAlways(client, tx) ==
    /\ LibLoop
    /\ Observe(Record("chargeback", client, tx, None))
    /\ LET accs == EntryAccount(accounts, client) IN
       IF tx \in DOMAIN txns /\ tx \in disputed
       THEN /\ accounts' = [accs EXCEPT
                                ![client].amounts = chargeback(@, txns[tx]),
                                ![client].locked = TRUE]
            /\ disputed' = disputed \ {tx}
       ELSE /\ accounts' = [accs EXCEPT ![client].locked = tx \in DOMAIN txns]
            /\ UNCHANGED disputed
    /\ UNCHANGED << txns, ret, program, binVars, written >>

\* Record::Chargeback arm
Chargeback(client, tx) ==
    /\ LibLoop
    /\ Observe(Record("chargeback", client, tx, None))
    /\ LET accs == EntryAccount(accounts, client) IN
       IF tx \in DOMAIN txns /\ tx \in disputed
       THEN /\ accounts' = [accs EXCEPT
                                ![client].amounts = chargeback(@, txns[tx]),
                                ![client].locked = TRUE]
            /\ disputed' = disputed \ {tx}
       ELSE /\ accounts' = accs
            /\ UNCHANGED disputed
    /\ UNCHANGED << txns, ret, program, binVars, written >>

\* let record: Record = record?;  a row the reader cannot decode
CsvError ==
    /\ program = "lib" /\ ret.tag = "Pending"
    /\ ret' = [tag |-> "Err", error |-> "Csv", tx |-> 0]
    /\ UNCHANGED << program, accounts, txns, disputed, binVars, written,
                    last, n, before, charged, chargedClients,
                    moreHistory >>

\* Ok(accounts): the stream has ended
EndOfStream ==
    /\ program = "lib" /\ ret.tag = "Pending"
    /\ ret' = [tag |-> "Ok", accounts |-> accounts]
    /\ UNCHANGED << program, accounts, txns, disputed, binVars, written,
                    last, n, before, charged, chargedClients,
                    moreHistory >>

\* tests/check.rs: every account of the returned mapping is serialized
WriteAccounts ==
    /\ program = "lib" /\ ret.tag = "Ok" /\ written = {}
    /\ ret.accounts # EmptyMap
    /\ written' = {Serialize(ret.accounts[c]) : c \in DOMAIN ret.accounts}
    /\ UNCHANGED << program, libVars, binVars, last, n, before, charged,
                    chargedClients,
                    moreHistory >>

LibNext ==
    \/ \E client \in ClientId, tx \in TxId, amount \in OptionDecimal :
           Deposit(client, tx, amount)
    \/ \E client \in ClientId, tx \in TxId, amount \in OptionDecimal :
           Withdraw(client, tx, amount)
    \/ \E client \in ClientId, tx \in TxId : Dispute(client, tx)
    \/ \E client \in ClientId, tx \in TxId : Resolve(client, tx)
    \/ \E client \in ClientId, tx \in TxId : Chargeback(client, tx)
    \/ CsvError
    \/ EndOfStream
    \/ WriteAccounts

\* ------------------------------------------------------------- main.rs
DefaultOutput(client) ==
    [client |-> client, available |-> 0, held |-> 0, total |-> 0,
     locked |-> FALSE]

\* accounts.entry(item.client).or_insert_with(|| Output { client, ..Default::default() })
EntryOutput(accs, client) ==
    IF client \in DOMAIN accs THEN accs
    ELSE accs @@ (client :> DefaultOutput(client))

BinLoop == program = "bin" /\ bin_pc = "loop" /\ n < MaxRecords

\* RecordType::Deposit arm
BinDeposit(client, tx, amount) ==
    /\ BinLoop
    /\ Observe(Record("deposit", client, tx, amount))
    /\ LET accs == EntryOutput(bin_accounts, client) IN
       IF ~IsSome(amount)
       THEN /\ bin_accounts' = accs
            /\ bin_pc' = "panicked"
            /\ UNCHANGED bin_txns
       ELSE /\ bin_accounts' = [accs EXCEPT
                    ![client].available = @ + Unwrap(amount),
                    ![client].total = @ + Unwrap(amount)]
            /\ bin_txns' = OrInsert(bin_txns, tx, Unwrap(amount))
            /\ UNCHANGED bin_pc
    /\ UNCHANGED << program, libVars, written, charged, chargedClients >>

\* RecordType::Withdrawal arm
BinWithdrawal(client, tx, amount) ==
    /\ BinLoop
    /\ Observe(Record("withdrawal", client, tx, amount))
    /\ LET accs == EntryOutput(bin_accounts, client) IN
       IF ~IsSome(amount)
       THEN /\ bin_accounts' = accs
            /\ bin_pc' = "panicked"
            /\ UNCHANGED bin_txns
       ELSE IF accs[client].available >= Unwrap(amount)
       THEN /\ bin_accounts' = [accs EXCEPT
                    ![client].available = @ - Unwrap(amount),
                    ![client].total = @ - Unwrap(amount)]
            /\ bin_txns' = OrInsert(bin_txns, tx, Unwrap(amount))
            /\ UNCHANGED bin_pc
       ELSE /\ bin_accounts' = accs
            /\ UNCHANGED << bin_txns, bin_pc >>
    /\ UNCHANGED << program, libVars, written, charged, chargedClients >>

\* mutant: the Dispute arm takes the held amount off the stored total
BinDisputeLowersTotal(client, tx) ==
    /\ BinLoop
    /\ Observe(Record("dispute", client, tx, None))
    /\ LET accs == EntryOutput(bin_accounts, client) IN
       IF tx \in DOMAIN bin_txns
       THEN bin_accounts' = [accs EXCEPT
                    ![client].available = @ - bin_txns[tx],
                    ![client].held = @ + bin_txns[tx],
                    ![client].total = @ - bin_txns[tx]]
       ELSE bin_accounts' = accs
    /\ UNCHANGED << bin_txns, bin_pc, program, libVars, written, charged,
                    chargedClients >>

\* RecordType::Dispute arm
BinDispute(client, tx) ==
    /\ BinLoop
    /\ Observe(Record("dispute", client, tx, None))
    /\ LET accs == EntryOutput(bin_accounts, client) IN
       IF tx \in DOMAIN bin_txns
       THEN bin_accounts' = [accs EXCEPT
                    ![client].available = @ - bin_txns[tx],
                    ![client].held = @ + bin_txns[tx]]
       ELSE bin_accounts' = accs
    /\ UNCHANGED << bin_txns, bin_pc, program, libVars, written, charged,
                    chargedClients >>

\* RecordType::Resolve arm
BinResolve(client, tx) ==
    /\ BinLoop
    /\ Observe(Record("resolve", client, tx, None))
    /\ LET accs == EntryOutput(bin_accounts, client) IN
       IF tx \in DOMAIN bin_txns
       THEN bin_accounts' = [accs EXCEPT
                    ![client].held = @ - bin_txns[tx],
                    ![client].available = @ + bin_txns[tx]]
       ELSE bin_accounts' = accs
    /\ UNCHANGED << bin_txns, bin_pc, program, libVars, written, charged,
                    chargedClients >>

\* RecordType::Chargeback arm: todo!()
BinChargeback(client, tx) ==
    /\ BinLoop
    /\ Observe(Record("chargeback", client, tx, None))
    /\ bin_accounts' = EntryOutput(bin_accounts, client)
    /\ bin_pc' = "panicked"
    /\ UNCHANGED << bin_txns, program, libVars, written, charged,
                    chargedClients >>

\* accounts.into_values().collect(): the items are exhausted
BinReturn ==
    /\ program = "bin" /\ bin_pc = "loop"
    /\ bin_pc' = "returned"
    /\ UNCHANGED << bin_accounts, bin_txns, program, libVars, written, last,
                    n, before, charged, chargedClients,
                    moreHistory >>

\* main: every Output is serialized to stdout, fields as stored
BinWrite ==
    /\ program = "bin" /\ bin_pc = "returned" /\ written = {}
    /\ bin_accounts # EmptyMap
    /\ written' = {bin_accounts[c] : c \in DOMAIN bin_accounts}
    /\ UNCHANGED << program, libVars, binVars, last, n, before, charged,
                    chargedClients,
                    moreHistory >>

BinNext ==
    \/ \E client \in ClientId, tx \in TxId, amount \in OptionDecimal :
           BinDeposit(client, tx, amount)
    \/ \E client \in ClientId, tx \in TxId, amount \in OptionDecimal :
           BinWithdrawal(client, tx, amount)
    \/ \E client \in ClientId, tx \in TxId : BinDispute(client, tx)
    \/ \E client \in ClientId, tx \in TxId : BinResolve(client, tx)
    \/ \E client \in ClientId, tx \in TxId : BinChargeback(client, tx)
    \/ BinReturn
    \/ BinWrite

Next == LibNext \/ BinNext

Spec == Init /\ [][Next]_vars

\* ------------------------------------------------------------- properties
\* process has read a record of the given type last.
Read(type) == program = "lib" /\ last.type = type

LifecycleTypes == {"dispute", "resolve", "chargeback"}

\* The history held an amount for the tx of the last record when it was read.
WasKnown == last.tx \in DOMAIN before.txns

\* The tx of the last record was under dispute when it was read.
WasOpen == last.tx \in before.disputed

\* available and held of a client before the last record; 0 for a new client.
AvailableBefore(c) ==
    IF c \in DOMAIN before.accounts
    THEN before.accounts[c].amounts.available ELSE 0

HeldBefore(c) ==
    IF c \in DOMAIN before.accounts
    THEN before.accounts[c].amounts.held ELSE 0

\* The last record left available, held and locked of every account as they
\* were; an account it created has zero balances and is not locked.
AccountsKept ==
    /\ \A c \in DOMAIN before.accounts :
           c \in DOMAIN accounts /\ accounts[c] = before.accounts[c]
    /\ \A c \in DOMAIN accounts \ DOMAIN before.accounts :
           accounts[c] = DefaultAccount(c)

\* Every recorded amount is positive.
PositiveHistory == \A tx \in DOMAIN txns : txns[tx] > 0

RECURSIVE SumOf(_, _)
SumOf(map, keys) ==
    IF keys = {} THEN 0
    ELSE LET k == CHOOSE x \in keys : TRUE
         IN map[k] + SumOf(map, keys \ {k})

\* C1: a Resolve whose tx is in the history but not in the disputed set is
\* ignored: no account's available, held or locked changes, and the history
\* and the disputed set stay as they were.
C1_ResolveNotDisputedIgnored ==
    (Read("resolve") /\ WasKnown /\ ~WasOpen)
        => (AccountsKept /\ txns = before.txns /\ disputed = before.disputed)

\* C2: every account has 0 <= held, and held is at most the sum of the
\* recorded amounts of the transactions currently under dispute.
C2_HeldWithinOpenDisputes ==
    \A c \in DOMAIN accounts :
        /\ 0 <= accounts[c].amounts.held
        /\ accounts[c].amounts.held <= SumOf(txns, disputed)

\* C3: once a Chargeback of tx has taken effect, no later Dispute, Resolve or
\* Chargeback naming tx moves any funds, and tx is never again in the
\* disputed set.
C3_ChargedBackIsTerminal ==
    \A tx \in charged :
        /\ tx \notin disputed
        /\ (program = "lib" /\ last.type \in LifecycleTypes /\ last.tx = tx
               /\ tx \in before.charged) => AccountsKept

\* C4: a Chargeback whose tx is in the history but not in the disputed set is
\* ignored: no account's available, held or locked changes and the disputed
\* set is unchanged; so a Chargeback of a tx that was resolved or already
\* charged back neither reduces held nor locks the account.
C4_ChargebackNotDisputedIgnored ==
    (Read("chargeback") /\ WasKnown /\ ~WasOpen)
        => (AccountsKept /\ disputed = before.disputed /\ txns = before.txns)

\* C4 witness: Deposit, Dispute, Chargeback and a second Chargeback of the
\* same tx by the same client have been read; the second found the tx
\* recorded and not under dispute, and held is 0, not minus the amount.
C4_Witness ==
    /\ Read("chargeback") /\ n = 4
    /\ WasKnown /\ ~WasOpen
    /\ last.tx \in before.charged /\ last.client \in chargedClients
    /\ PositiveHistory
    /\ accounts[last.client].locked
    /\ accounts[last.client].amounts.held = 0

\* C5: a Deposit or Withdrawal without amount makes process return the error
\* DepositNoAmount(tx) or WithdrawNoAmount(tx) with the record's tx and no
\* account mapping, whatever the funds of the account; the record that
\* raised the error is the last one read, and nothing is written.
C5_MissingAmountIsFatal ==
    /\ (Read("deposit") /\ last.amount = None)
        => ret = [tag |-> "Err", error |-> "DepositNoAmount", tx |-> last.tx]
    /\ (Read("withdrawal") /\ last.amount = None)
        => ret = [tag |-> "Err", error |-> "WithdrawNoAmount", tx |-> last.tx]
    /\ (ret.tag = "Err" /\ ret.error = "DepositNoAmount")
        => (last.type = "deposit" /\ last.amount = None /\ last.tx = ret.tx)
    /\ (ret.tag = "Err" /\ ret.error = "WithdrawNoAmount")
        => (last.type = "withdrawal" /\ last.amount = None
            /\ last.tx = ret.tx)
    /\ ret.tag = "Err" => written = {}

\* C5 witness: a Withdrawal without amount has ended the run with its error
\* on an account that earlier records gave available funds.
C5_Witness ==
    /\ Read("withdrawal") /\ last.amount = None
    /\ ret = [tag |-> "Err", error |-> "WithdrawNoAmount", tx |-> last.tx]
    /\ accounts[last.client].amounts.available > 0
    /\ n >= 2 /\ n < MaxRecords

\* C6: an account is locked exactly if a Chargeback naming its client has
\* taken effect, and an account that was locked is still locked after the
\* next record.
C6_LockedIffChargedBack ==
    /\ \A c \in ClientId :
           (c \in DOMAIN accounts /\ accounts[c].locked)
               <=> c \in chargedClients
    /\ program = "lib" =>
           \A c \in DOMAIN before.accounts :
               before.accounts[c].locked
                   => (c \in DOMAIN accounts /\ accounts[c].locked)

\* C6 witness: a locked account has received a later Deposit and is still
\* locked, while another account exists and is not locked.
C6_Witness ==
    /\ Read("deposit") /\ IsSome(last.amount)
    /\ Unwrap(last.amount) > 0 /\ PositiveHistory
    /\ last.client \in DOMAIN before.accounts
    /\ before.accounts[last.client].locked
    /\ accounts[last.client].locked
    /\ \E c \in DOMAIN accounts : ~accounts[c].locked

\* C7: a Withdrawal of more than the available funds changes no balance and
\* no locked flag, records nothing in the history and leaves the disputed
\* set alone; a Dispute, Resolve or Chargeback naming a tx the history does
\* not hold changes nothing either.
C7_FailedWithdrawalChangesNothing ==
    /\ (Read("withdrawal") /\ IsSome(last.amount)
           /\ Unwrap(last.amount) > AvailableBefore(last.client))
        => (AccountsKept /\ txns = before.txns
            /\ disputed = before.disputed)
    /\ (program = "lib" /\ last.type \in LifecycleTypes /\ ~WasKnown)
        => (AccountsKept /\ disputed = before.disputed)

\* C7 witness: a Withdrawal that available + held would cover, but available
\* alone does not, has been read and its tx is not in the history.
C7_Witness ==
    /\ Read("withdrawal") /\ IsSome(last.amount)
    /\ ~WasKnown /\ last.tx \notin DOMAIN txns
    /\ Unwrap(last.amount) > AvailableBefore(last.client)
    /\ Unwrap(last.amount) <=
           AvailableBefore(last.client) + HeldBefore(last.client)
    /\ PositiveHistory /\ disputed # {}

\* C8: a Dispute, Resolve or Chargeback whose tx is not in the history
\* changes no balance, no locked flag, no history entry and no disputed-set
\* membership; the account of its client exists afterwards, with zero
\* balances and unlocked if it is new, and the record raises no error.
C8_UnknownTxOnlyCreatesAccount ==
    (program = "lib" /\ last.type \in LifecycleTypes /\ ~WasKnown)
        => /\ AccountsKept
           /\ DOMAIN accounts = DOMAIN before.accounts \cup {last.client}
           /\ txns = before.txns
           /\ disputed = before.disputed
           /\ ret.tag = "Err" => ret.error = "Csv"

\* C8 witness: a Dispute of a tx that was never recorded has created the
\* account of its client, next to an account that holds funds.
C8_Witness ==
    /\ Read("dispute") /\ ~WasKnown
    /\ last.client \notin DOMAIN before.accounts
    /\ accounts[last.client] = DefaultAccount(last.client)
    /\ \E c \in DOMAIN accounts : accounts[c].amounts.available > 0
    /\ ret.tag = "Pending"

\* C9: no record changes or removes an entry of the history; a first Deposit
\* or successful Withdrawal of a tx records its amount; a Deposit or a
\* successful Withdrawal changes available by its own amount also when its
\* tx is already recorded; a Dispute holds the recorded amount.
C9_HistoryInsertIfAbsent ==
    /\ program = "lib" =>
           \A tx \in DOMAIN before.txns :
               tx \in DOMAIN txns /\ txns[tx] = before.txns[tx]
    /\ (Read("deposit") /\ IsSome(last.amount))
        => /\ accounts[last.client].amounts.available =
                  AvailableBefore(last.client) + Unwrap(last.amount)
           /\ last.tx \in DOMAIN txns
           /\ ~WasKnown => txns[last.tx] = Unwrap(last.amount)
    /\ (Read("withdrawal") /\ IsSome(last.amount)
           /\ Unwrap(last.amount) <= AvailableBefore(last.client))
        => /\ accounts[last.client].amounts.available =
                  AvailableBefore(last.client) - Unwrap(last.amount)
           /\ last.tx \in DOMAIN txns
           /\ ~WasKnown => txns[last.tx] = Unwrap(last.amount)
    /\ (Read("dispute") /\ WasKnown)
        => /\ accounts[last.client].amounts.held =
                  HeldBefore(last.client) + before.txns[last.tx]
           /\ accounts[last.client].amounts.available =
                  AvailableBefore(last.client) - before.txns[last.tx]

\* C9 witness: a Deposit has reused a recorded tx with another amount; the
\* history keeps the first amount.
C9_Witness ==
    /\ Read("deposit") /\ IsSome(last.amount)
    /\ WasKnown
    /\ txns[last.tx] # Unwrap(last.amount)
    /\ txns[last.tx] > 0 /\ Unwrap(last.amount) > 0

\* C10: every stored total of main.rs equals available + held of its
\* account, and every row written carries total = available + held of the
\* account it was written from.
C10_TotalIsAvailablePlusHeld ==
    /\ \A c \in DOMAIN bin_accounts :
           bin_accounts[c].total =
               bin_accounts[c].available + bin_accounts[c].held
    /\ program = "bin" =>
           \A row \in written :
               /\ row.client \in DOMAIN bin_accounts
               /\ row = bin_accounts[row.client]
               /\ row.total = row.available + row.held
    /\ program = "lib" =>
           \A row \in written :
               /\ row.client \in DOMAIN accounts
               /\ row.available = accounts[row.client].amounts.available
               /\ row.held = accounts[row.client].amounts.held
               /\ row.total = accounts[row.client].amounts.available
                                  + accounts[row.client].amounts.held

\* C10 witness: main.rs has read a Resolve of a recorded tx and its account
\* has funds in both buckets.
C10_Witness ==
    /\ program = "bin" /\ last.type = "resolve" /\ WasKnown
    /\ \A tx \in DOMAIN bin_txns : bin_txns[tx] > 0
    /\ bin_accounts[last.client].held > 0
    /\ bin_accounts[last.client].available > 0

\* C11: every record, of any variant, creates the account of its client if
\* it is missing, as a zero account the record's own effect then starts
\* from (also when the record is fatal): the accounts are exactly those of
\* the clients the records read have named, and that is the mapping a
\* stream that ends without a fatal error returns.
C11_EveryRecordCreatesItsAccount ==
    program = "lib" =>
        /\ DOMAIN accounts = seen
        /\ \A c \in DOMAIN accounts : accounts[c].client = c
        /\ n > 0 => DOMAIN accounts = DOMAIN before.accounts \cup {last.client}
        /\ (n > 0 /\ last.client \notin DOMAIN before.accounts) =>
               accounts[last.client] =
                   IF last.type = "deposit" /\ IsSome(last.amount)
                   THEN [DefaultAccount(last.client) EXCEPT
                            !.amounts.available = Unwrap(last.amount)]
                   ELSE IF last.type = "withdrawal" /\ IsSome(last.amount)
                           /\ Unwrap(last.amount) <= 0
                   THEN [DefaultAccount(last.client) EXCEPT
                            !.amounts.available = 0 - Unwrap(last.amount)]
                   ELSE IF last.type = "dispute" /\ WasKnown
                   THEN [DefaultAccount(last.client) EXCEPT
                            !.amounts.available = 0 - before.txns[last.tx],
                            !.amounts.held = before.txns[last.tx]]
                   ELSE IF last.type = "resolve" /\ WasKnown
                   THEN [DefaultAccount(last.client) EXCEPT
                            !.amounts.available = before.txns[last.tx],
                            !.amounts.held = 0 - before.txns[last.tx]]
                   ELSE IF last.type = "chargeback" /\ WasKnown /\ WasOpen
                   THEN [DefaultAccount(last.client) EXCEPT
                            !.amounts.held = 0 - before.txns[last.tx],
                            !.locked = TRUE]
                   ELSE DefaultAccount(last.client)
        /\ ret.tag = "Ok" => (ret.accounts = accounts
                                 /\ DOMAIN ret.accounts = seen)

\* C11 witness: a stream has ended without error; its last record, a Dispute
\* of a tx that was never recorded, is the only record of its client, and
\* the mapping returned holds that client with a zero account next to a
\* client with funds.
C11_Witness ==
    /\ program = "lib" /\ ret.tag = "Ok" /\ n = 2
    /\ last.type = "dispute" /\ ~WasKnown
    /\ last.client \notin DOMAIN before.accounts
    /\ DOMAIN ret.accounts = ClientId
    /\ ret.accounts[last.client] = DefaultAccount(last.client)
    /\ \E c \in DOMAIN ret.accounts : ret.accounts[c].amounts.available > 0

\* C12: a Dispute of a recorded tx followed at once by the Resolve of the
\* same client and tx leaves the account of that client (available, held,
\* locked) as it was immediately before the Dispute, and tx outside the
\* disputed set.
C12_DisputeThenResolveRoundTrip ==
    (Read("resolve") /\ trip.on)
        => /\ accounts[last.client] = trip.account
           /\ last.tx \notin disputed

\* C12 witness: Dispute then Resolve of a recorded positive amount have been
\* read, on an account that had funds available before them and has them
\* again.
C12_Witness ==
    /\ Read("resolve") /\ trip.on
    /\ PositiveHistory
    /\ trip.account.amounts.available > 0
    /\ accounts[last.client].amounts.available > 0
    /\ accounts[last.client].amounts.held = 0

\* The locked flag of a client before the last record; FALSE without account.
LockedBefore(c) ==
    IF c \in DOMAIN before.accounts THEN before.accounts[c].locked ELSE FALSE

\* The history a Deposit or successful Withdrawal leaves: its amount under
\* its tx if the tx was not recorded, the history as it was otherwise.
HistoryWithLast ==
    IF WasKnown THEN before.txns
    ELSE before.txns @@ (last.tx :> Unwrap(last.amount))

\* C13: a locked account is not blocked: a Deposit, and a Withdrawal that
\* available covers, change available and the history in the same way
\* whether the account was locked or not, change neither held nor the
\* disputed set, and leave the locked flag as it was (true on a locked
\* account).
C13_LockedAccountNotBlocked ==
    /\ (Read("deposit") /\ IsSome(last.amount))
        => /\ accounts[last.client].amounts.available =
                  AvailableBefore(last.client) + Unwrap(last.amount)
           /\ accounts[last.client].amounts.held = HeldBefore(last.client)
           /\ txns = HistoryWithLast
           /\ disputed = before.disputed
           /\ accounts[last.client].locked = LockedBefore(last.client)
    /\ (Read("withdrawal") /\ IsSome(last.amount)
           /\ Unwrap(last.amount) <= AvailableBefore(last.client))
        => /\ accounts[last.client].amounts.available =
                  AvailableBefore(last.client) - Unwrap(last.amount)
           /\ accounts[last.client].amounts.held = HeldBefore(last.client)
           /\ txns = HistoryWithLast
           /\ disputed = before.disputed
           /\ accounts[last.client].locked = LockedBefore(last.client)

\* C13 witness: after Deposit, Dispute and Chargeback have locked an
\* account, a Deposit of a new tx with a positive amount has been read for
\* it (Scenario C).
C13_Witness ==
    /\ Read("deposit") /\ IsSome(last.amount) /\ Unwrap(last.amount) > 0
    /\ LockedBefore(last.client) /\ ~WasKnown
    /\ last.client \in chargedClients
    /\ PositiveHistory
    /\ AvailableBefore(last.client) = 0 /\ HeldBefore(last.client) = 0
    /\ accounts[last.client].locked

\* Every amount the history holds and the amount of the last record are
\* non-negative; so it is in every state of a stream whose Deposit and
\* Withdrawal amounts are all non-negative, the history holding only
\* amounts of the stream.
NonNegativeAmounts ==
    /\ \A tx \in DOMAIN txns : txns[tx] >= 0
    /\ IsSome(last.amount) => Unwrap(last.amount) >= 0

\* C14: with non-negative amounts, no Deposit, Withdrawal, Resolve or
\* Chargeback takes an account from available >= 0 to available < 0
\* (only a Dispute makes available negative).
C14_OnlyDisputeMakesAvailableNegative ==
    (program = "lib" /\ NonNegativeAmounts
        /\ last.type \in {"deposit", "withdrawal", "resolve", "chargeback"})
        => \A c \in DOMAIN accounts :
               AvailableBefore(c) >= 0 => accounts[c].amounts.available >= 0

\* C14 witness: a Withdrawal of a positive amount has emptied an account
\* that held exactly that amount, while a Dispute has left another account
\* with negative available.
C14_Witness ==
    /\ Read("withdrawal") /\ IsSome(last.amount) /\ Unwrap(last.amount) > 0
    /\ NonNegativeAmounts /\ PositiveHistory
    /\ Unwrap(last.amount) = AvailableBefore(last.client)
    /\ accounts[last.client].amounts.available = 0
    /\ \E c \in DOMAIN accounts : accounts[c].amounts.available < 0

\* C15: a Dispute, Resolve or Chargeback whose tx is not yet in the history
\* changes nothing, and a Dispute read before the record that creates its
\* tx is not applied afterwards: no tx disputed early is under dispute
\* while the history does not hold it, and the Deposit that then creates
\* such a tx leaves it outside the disputed set, leaves held as it was and
\* adds its full amount to available.
C15_EarlyDisputeNeverApplied ==
    /\ (program = "lib" /\ last.type \in LifecycleTypes /\ ~WasKnown)
        => (AccountsKept /\ disputed = before.disputed /\ txns = before.txns)
    /\ program = "lib" => \A tx \in early \ DOMAIN txns : tx \notin disputed
    /\ (Read("deposit") /\ IsSome(last.amount) /\ ~WasKnown
           /\ last.tx \in early)
        => /\ last.tx \notin disputed
           /\ txns[last.tx] = Unwrap(last.amount)
           /\ accounts[last.client].amounts.held = HeldBefore(last.client)
           /\ accounts[last.client].amounts.available =
                  AvailableBefore(last.client) + Unwrap(last.amount)
    /\ (Read("withdrawal") /\ IsSome(last.amount) /\ ~WasKnown
           /\ last.tx \in early)
        => /\ last.tx \notin disputed
           /\ accounts[last.client].amounts.held = HeldBefore(last.client)

\* C15 witness: a client has disputed a tx and has then deposited a positive
\* amount under that tx; the amount is available and nothing is held.
C15_Witness ==
    /\ Read("deposit") /\ IsSome(last.amount) /\ Unwrap(last.amount) > 0
    /\ n = 2 /\ last.tx \in early /\ ~WasKnown
    /\ DOMAIN before.accounts = {last.client}
    /\ accounts[last.client].amounts =
           [available |-> Unwrap(last.amount), held |-> 0]
    /\ disputed = {}

\* The amount of the Deposit or Withdrawal that recorded the tx of the last
\* record, and whether a Withdrawal recorded it.
OriginAmount == origin[last.tx].amount
OfWithdrawal == WasKnown /\ origin[last.tx].type = "withdrawal"

\* C16: the dispute lifecycle of a tx is the same whether a Deposit or a
\* successful Withdrawal recorded it. A Dispute subtracts the recorded
\* (withdrawn) amount from available and adds it to held, total unchanged;
\* a Resolve of the open dispute moves it back, and right after the Dispute
\* restores the account; a Chargeback of the open dispute subtracts it from
\* held and locks the account, and right after the Dispute leaves total
\* lower than before the Dispute by that amount.
C16_WithdrawalDisputedLikeDeposit ==
    (program = "lib" /\ WasKnown) =>
        /\ last.tx \in DOMAIN origin /\ before.txns[last.tx] = OriginAmount
        /\ last.type = "dispute"
            => /\ accounts[last.client].amounts.available =
                      AvailableBefore(last.client) - OriginAmount
               /\ accounts[last.client].amounts.held =
                      HeldBefore(last.client) + OriginAmount
               /\ last.tx \in disputed
        /\ (last.type = "resolve" /\ WasOpen)
            => /\ accounts[last.client].amounts.available =
                      AvailableBefore(last.client) + OriginAmount
               /\ accounts[last.client].amounts.held =
                      HeldBefore(last.client) - OriginAmount
               /\ last.tx \notin disputed
               /\ trip.on => accounts[last.client] = trip.account
        /\ (last.type = "chargeback" /\ WasOpen)
            => /\ accounts[last.client].amounts.available =
                      AvailableBefore(last.client)
               /\ accounts[last.client].amounts.held =
                      HeldBefore(last.client) - OriginAmount
               /\ accounts[last.client].locked
               /\ last.tx \notin disputed
               /\ trip.on => total(accounts[last.client].amounts) =
                                 total(trip.account.amounts) - OriginAmount

\* C16 witness: a successful Withdrawal of a positive amount has been
\* disputed and then charged back by its client, whose account is locked
\* with total lower by the withdrawn amount.
C16_Witness ==
    /\ Read("chargeback") /\ OfWithdrawal /\ WasOpen /\ trip.on
    /\ PositiveHistory
    /\ origin[last.tx].client = last.client
    /\ accounts[last.client].locked
    /\ total(trip.account.amounts) > 0
    /\ total(accounts[last.client].amounts) =
           total(trip.account.amounts) - OriginAmount

\* The last record names a recorded tx that another client created.
CrossClient == WasKnown /\ origin[last.tx].client # last.client

\* C17: a record changes at most the account of its own client: every
\* other account exists before it and is unchanged (available, held,
\* locked). A Dispute, Resolve or Chargeback of a tx that another client
\* created holds, releases or charges back the recorded amount on the
\* account of the record's client.
C17_OnlyOwnAccountChanges ==
    program = "lib" =>
        /\ \A c \in DOMAIN accounts \ {last.client} :
               c \in DOMAIN before.accounts /\ accounts[c] = before.accounts[c]
        /\ (last.type = "dispute" /\ CrossClient)
            => /\ accounts[last.client].amounts.available =
                      AvailableBefore(last.client) - before.txns[last.tx]
               /\ accounts[last.client].amounts.held =
                      HeldBefore(last.client) + before.txns[last.tx]
        /\ (last.type = "resolve" /\ CrossClient /\ WasOpen)
            => /\ accounts[last.client].amounts.available =
                      AvailableBefore(last.client) + before.txns[last.tx]
               /\ accounts[last.client].amounts.held =
                      HeldBefore(last.client) - before.txns[last.tx]
        /\ (last.type = "chargeback" /\ CrossClient /\ WasOpen)
            => /\ accounts[last.client].amounts.held =
                      HeldBefore(last.client) - before.txns[last.tx]
               /\ accounts[last.client].locked

\* C17 witness: a client has charged back the open dispute of a positive
\* amount that another client deposited; the depositor keeps its funds and
\* is not locked, the client of the Chargeback is locked.
C17_Witness ==
    /\ Read("chargeback") /\ CrossClient /\ WasOpen
    /\ PositiveHistory
    /\ origin[last.tx].type = "deposit"
    /\ LET owner == origin[last.tx].client IN
           /\ accounts[owner].amounts =
                  [available |-> txns[last.tx], held |-> 0]
           /\ ~accounts[owner].locked
    /\ accounts[last.client].locked
    /\ accounts[last.client].amounts.available < 0

\* C18: for every account, available + held equals the Deposits applied to
\* its client, minus its successful Withdrawals, minus the recorded amounts
\* of the Chargebacks that took effect with its client; a Dispute or a
\* Resolve changes available + held of no account, nor the total that
\* main.rs stores.
C18_LedgerEquation ==
    /\ program = "lib" =>
        /\ \A c \in DOMAIN accounts : total(accounts[c].amounts) = ledger[c]
        /\ \A c \in ClientId \ DOMAIN accounts : ledger[c] = 0
        /\ last.type \in {"dispute", "resolve"}
            => \A c \in DOMAIN accounts :
                   total(accounts[c].amounts) =
                       AvailableBefore(c) + HeldBefore(c)
    /\ (program = "bin" /\ last.type \in {"dispute", "resolve"})
        => \A c \in DOMAIN bin_accounts :
               /\ bin_accounts[c].total =
                      IF c \in DOMAIN before.accounts
                      THEN before.accounts[c].total ELSE 0
               /\ bin_accounts[c].available + bin_accounts[c].held =
                      bin_accounts[c].total

\* C18 witness: a client has deposited, withdrawn a part, disputed the
\* Deposit and charged it back; its account totals the negative of the
\* amount withdrawn.
C18_Witness ==
    /\ Read("chargeback") /\ WasKnown /\ WasOpen /\ n = 4
    /\ PositiveHistory /\ DOMAIN accounts = {last.client}
    /\ origin[last.tx].type = "deposit"
    /\ \E tx \in DOMAIN origin :
           /\ origin[tx].type = "withdrawal"
           /\ ledger[last.client] = 0 - origin[tx].amount
    /\ total(accounts[last.client].amounts) = ledger[last.client]

\* C19: a Dispute of a recorded tx holds the recorded amount every time,
\* also when the tx is already under dispute: after run.count Disputes of
\* one tx by one client in a row, available is lower and held higher by
\* run.count times the recorded amount than before the first of them, and
\* the disputed set is the one before the last Dispute with tx in it.
C19_RepeatedDisputeHoldsAgain ==
    /\ (Read("dispute") /\ WasKnown)
        => /\ accounts[last.client].amounts.available =
                  AvailableBefore(last.client) - txns[last.tx]
           /\ accounts[last.client].amounts.held =
                  HeldBefore(last.client) + txns[last.tx]
           /\ disputed = before.disputed \cup {last.tx}
           /\ run.count > 0
    /\ (program = "lib" /\ run.count > 0)
        => /\ last.type = "dispute" /\ WasKnown
           /\ accounts[last.client].amounts.available =
                  run.start.amounts.available - run.count * txns[last.tx]
           /\ accounts[last.client].amounts.held =
                  run.start.amounts.held + run.count * txns[last.tx]
           /\ accounts[last.client].locked = run.start.locked
           /\ last.tx \in disputed
           /\ run.count > 1 => (WasOpen /\ disputed = before.disputed)

\* C19 witness: a positive Deposit has been disputed three times in a row
\* by its client; three times its amount is held.
C19_Witness ==
    /\ Read("dispute") /\ run.count = 3 /\ WasOpen
    /\ txns[last.tx] > 0
    /\ run.start.amounts = [available |-> txns[last.tx], held |-> 0]
    /\ accounts[last.client].amounts.held = 3 * txns[last.tx]
    /\ disputed = {last.tx}

\* C20: the disputed set is a subset of the keys of the history, and every
\* tx under dispute was recorded by a Deposit with an amount or by a
\* Withdrawal that available covered.
C20_DisputedWithinHistory ==
    program = "lib" =>
        /\ disputed \subseteq DOMAIN txns
        /\ DOMAIN txns = DOMAIN origin
        /\ \A tx \in disputed :
               /\ origin[tx].type \in {"deposit", "withdrawal"}
               /\ origin[tx].amount = txns[tx]

\* C20 witness: while a recorded tx is under dispute, a Dispute of a tx
\* that was never recorded has been read and has left the set as it was.
C20_Witness ==
    /\ Read("dispute") /\ ~WasKnown
    /\ last.tx \notin DOMAIN txns
    /\ before.disputed # {} /\ disputed = before.disputed
    /\ PositiveHistory
====
